---- MODULE Spec2Model ----
(***************************************************************************)
(* Model of libsplinter/src/network/sender.rs: the NetworkMessageSender    *)
(* dispatch loop, the Sender/Receiver channel traits and their two         *)
(* backings (crossbeam_channel::bounded and std::sync::mpsc::channel).     *)
(*                                                                         *)
(* s     the state of one execution: the channel, the producers' handles   *)
(*       and the NetworkMessageSender                                      *)
(* twin  a second execution driven by the same schedule, whose network     *)
(*       never fails (used by SpecTwin only)                               *)
(* tries the results of try_recv calls made by a holder of the bare        *)
(*       Receiver (used by SpecTry only)                                   *)
(* late  history: a send call has returned after the network outcomes of   *)
(*       s and twin had come to differ (used by SpecTwin only)             *)
(***************************************************************************)
EXTENDS Integers, Sequences, FiniteSets, TLC

VARIABLES s, twin, tries, late

vars == <<s, twin, tries, late>>

----------------------------------------------------------------------------
(* Bounds of the model *)

MaxHandles == 2

MaxSends == 3

MaxTries == 2

(* the rapid-fire producer sends this many messages more than the channel  *)
(* holds                                                                   *)
MaxExtra == 2

(* crossbeam_channel::bounded(5) in the tests *)
Capacity == 5

Handles == 1..MaxHandles

Kinds == {"crossbeam", "mpsc"}

(* "123" is the peer the tests add to the network; no peer is "nobody" *)
Recipients == <<"123", "nobody">>

----------------------------------------------------------------------------
(* SendRequest *)

SendRequest_new(r, p) == [recipient |-> r, payload |-> p]

recipient(req) == req.recipient

payload(req) == req.payload

(* The request of the n-th send call on handle h. The code never looks     *)
(* into a request, so the producers' requests are fixed: the payload bytes *)
(* name the call and differ between any two requests, and the recipients   *)
(* alternate between the known peer and the unknown one.                   *)
Request(h, n) == SendRequest_new(Recipients[1 + ((h + n) % 2)], <<h, n>>)

(* An item in the channel: the SendRequest plus a ghost tag naming the     *)
(* handle that sent it and its position among that handle's send calls.    *)
Item(req, h, n) == [req |-> req, src |-> h, seq |-> n]

----------------------------------------------------------------------------
(* Results and error values *)

Ok(v) == [ok |-> TRUE, val |-> <<v>>, error |-> ""]

Err(e) == [ok |-> FALSE, val |-> <<>>, error |-> e]

Unit == "()"

(* err.to_string() of the two channel libraries *)
RecvErrorText(kind) ==
    IF kind = "crossbeam" THEN "receiving on an empty and disconnected channel"
    ELSE "receiving on a closed channel"

TryRecvEmptyText(kind) == "receiving on an empty channel"

TryRecvDisconnectedText(kind) ==
    IF kind = "crossbeam" THEN "receiving on an empty and disconnected channel"
    ELSE "receiving on a closed channel"

SendErrorText(kind) ==
    IF kind = "crossbeam" THEN "sending on a disconnected channel"
    ELSE "sending on a closed channel"

(* impl From<RecvError> for NetworkMessageSenderError:                     *)
(* RecvError(format!("Recv Error: {:?}", recv_error))                      *)
FromRecvError(e) ==
    [variant |-> "RecvError", text |-> <<"Recv Error: ", "RecvError { error: ", e, " }">>]

----------------------------------------------------------------------------
(* The channel, as the trait implementations use it *)

LiveHandles(S) == {h \in Handles : S.handles[h] = "live"}

(* variant: the channel counts as disconnected as soon as one handle is    *)
(* dropped                                                                 *)
Disconnected_anyDropped(S) == \E h \in Handles : S.handles[h] = "dropped"

(* every Sender handle has been dropped *)
Disconnected(S) == LiveHandles(S) = {}

(* variant: recv keeps blocking on an empty channel without senders *)
RecvReady_blocksForever(S) == S.queue # <<>>

(* variant: recv fails on an empty channel instead of waiting *)
RecvReady_neverBlocks(S) == TRUE

(* Receiver::recv blocks while the channel is empty and a sender is live *)
RecvReady(S) == S.queue # <<>> \/ Disconnected(S)

(* variant: the disconnect is reported before the channel is drained *)
recv_disconnectFirst(S) ==
    IF S.queue # <<>> /\ ~Disconnected(S) THEN Ok(Head(S.queue))
    ELSE Err(RecvErrorText(S.kind))

recv(S) ==
    IF S.queue # <<>> THEN Ok(Head(S.queue))
    ELSE Err(RecvErrorText(S.kind))

(* variant: the error text is fixed instead of err.to_string() *)
try_recv_fixedText(S) ==
    IF S.queue # <<>> THEN Ok(Head(S.queue))
    ELSE Err("receiving on an empty channel")

(* Receiver::try_recv never blocks *)
try_recv(S) ==
    IF S.queue # <<>> THEN Ok(Head(S.queue))
    ELSE IF Disconnected(S) THEN Err(TryRecvDisconnectedText(S.kind))
    ELSE Err(TryRecvEmptyText(S.kind))

(* a bounded crossbeam channel blocks send while full and a receiver is    *)
(* live; the mpsc channel is unbounded                                     *)
Full(S) == S.kind = "crossbeam" /\ Len(S.queue) >= Capacity

(* variant: send never waits for room *)
SendReady_neverBlocks(S) == TRUE

SendReady(S) == ~S.rcvLive \/ ~Full(S)

(* variant: the channel's error is discarded and Ok(()) returned *)
send_swallowsError(S, item) == Ok(Unit)

(* variant: a failed network send is reported to the next producer *)
send_reportsNetwork(S, item) ==
    IF S.rcvLive /\ (S.netLog = <<>> \/ S.netLog[Len(S.netLog)].ok)
    THEN Ok(Unit)
    ELSE Err(SendErrorText(S.kind))

send(S, item) ==
    IF S.rcvLive THEN Ok(Unit) ELSE Err(SendErrorText(S.kind))

QueueAfterSend(S, item) ==
    IF S.rcvLive THEN Append(S.queue, item) ELSE S.queue

----------------------------------------------------------------------------
(* Producers: the owners of the Sender handles *)

Min(A) == CHOOSE x \in A : \A y \in A : x <= y

TotalSends(S) ==
    LET n[h \in 0..MaxHandles] ==
            IF h = 0 THEN 0 ELSE n[h - 1] + Len(S.sent[h]) + Len(S.pend[h])
    IN  n[MaxHandles]

Idle(S, h) == S.handles[h] = "live" /\ S.pend[h] = <<>>

(* a producer calls sender.send(request) *)
SendCallEn(S, h) == Idle(S, h) /\ TotalSends(S) < MaxSends

SendCallEff(S, h) == [S EXCEPT !.pend[h] = <<Request(h, Len(S.sent[h]) + 1)>>]

(* the call returns: Ok(()) after enqueuing, or a SendError *)
SendReturnEn(S, h) == S.pend[h] # <<>> /\ SendReady(S)

SendReturnEff(S, h) ==
    LET item == Item(S.pend[h][1], h, Len(S.sent[h]) + 1)
    IN  [S EXCEPT !.pend[h] = <<>>,
                  !.queue = QueueAfterSend(S, item),
                  !.sent[h] = Append(@, [req |-> item.req,
                                         res |-> send(S, item)])]

(* Box<Sender<T>>::clone, through box_clone: one more handle to the same   *)
(* channel                                                                 *)
Unused(S) == {g \in Handles : S.handles[g] = "none"}

box_cloneEn(S, h) == Idle(S, h) /\ Unused(S) # {}

box_cloneEff(S, h) == [S EXCEPT !.handles[Min(Unused(S))] = "live"]

DropSenderEn(S, h) == Idle(S, h)

DropSenderEff(S, h) == [S EXCEPT !.handles[h] = "dropped"]

----------------------------------------------------------------------------
(* NetworkMessageSender *)

RunOk == [ok |-> TRUE, err |-> [variant |-> "", text |-> <<>>]]

RunErr(e) == [ok |-> FALSE, err |-> e]

(* thread::spawn(move || network_message_sender.run()) *)
RunStartEn(S) == S.pc = "new" /\ S.rcvLive

RunStartEff(S) == [S EXCEPT !.pc = "recv"]

(* variant: the disconnect ends the loop with Ok(()) *)
RunRecvEff_breakOk(S) ==
    LET r == recv(S)
    IN  IF r.ok
        THEN [S EXCEPT !.cur = r.val, !.queue = Tail(@), !.pc = "net",
                       !.recvs = @ + 1]
        ELSE [S EXCEPT !.pc = "returned", !.result = <<RunOk>>,
                       !.recvs = @ + 1]

(* variant: the next recv() is issued while the network send is still in  *)
(* progress                                                                *)
RunRecvEn_pipelined(S) == S.pc \in {"recv", "net"} /\ RecvReady(S)

(* variant: recv() is called again after it has failed *)
RunRecvEn_retries(S) == S.pc \in {"recv", "returned"} /\ RecvReady(S)

(* let send_request = self.rc.recv()?; recvs counts the recv() calls that  *)
(* have returned                                                           *)
RunRecvEn(S) == S.pc = "recv" /\ RecvReady(S)

RunRecvEff(S) ==
    LET r == recv(S)
    IN  IF r.ok
        THEN [S EXCEPT !.cur = r.val, !.queue = Tail(@), !.pc = "net",
                       !.recvs = @ + 1]
        ELSE [S EXCEPT !.pc = "returned",
                       !.result = <<RunErr(FromRecvError(r.error))>>,
                       !.recvs = @ + 1]

(* variant: only the first byte of the payload is passed on *)
NetworkCall_truncated(item) ==
    [recipient |-> recipient(item.req), payload |-> SubSeq(payload(item.req), 1, 1)]

(* variant: the recipient is the peer the dispatcher knows, not the        *)
(* request's                                                               *)
NetworkCall_fixedRecipient(item) ==
    [recipient |-> Recipients[1], payload |-> payload(item.req)]

(* the arguments of self.network.send *)
NetworkCall(item) ==
    [recipient |-> recipient(item.req), payload |-> payload(item.req)]

(* variant: the network error is propagated with ? *)
run_match_propagates(S, item, outcome) ==
    IF outcome THEN [S EXCEPT !.pc = "recv"]
    ELSE [S EXCEPT !.pc = "returned",
                   !.result = <<RunErr([variant |-> "NetworkError", text |-> <<>>])>>]

(* variant: a message whose network send failed is put back in the queue *)
run_match_requeues(S, item, outcome) ==
    [S EXCEPT !.pc = "recv",
              !.queue = IF outcome THEN @ ELSE Append(@, item)]

(* variant: after a failed network send the next queued message is         *)
(* discarded too                                                           *)
run_match_skipsNext(S, item, outcome) ==
    [S EXCEPT !.pc = "recv",
              !.queue = IF outcome \/ @ = <<>> THEN @ ELSE Tail(@)]

(* match ... { Ok(_) => (), Err(err) => warn!(...) }; and back to loop *)
run_match(S, item, outcome) == [S EXCEPT !.pc = "recv"]

(* self.network.send(...) returns outcome: TRUE for Ok, FALSE for Err *)
RunNetSendEn(S) == S.pc = "net"

RunNetSendEff(S, outcome) ==
    LET item == S.cur[1]
        call == NetworkCall(item)
        sent == [S EXCEPT !.cur = <<>>,
                          !.netLog = Append(@, [recipient |-> call.recipient,
                                                payload |-> call.payload,
                                                ok |-> outcome,
                                                src |-> item.src,
                                                seq |-> item.seq])]
    IN  run_match(sent, item, outcome)

(* the NetworkMessageSender goes out of scope, not running: its Receiver   *)
(* is dropped with the items still in the channel                          *)
DropReceiverEn(S) == S.pc \in {"new", "returned"} /\ S.rcvLive

DropReceiverEff(S) == [S EXCEPT !.rcvLive = FALSE, !.queue = <<>>]

----------------------------------------------------------------------------
(* One execution *)

InitState(kind) ==
    [kind |-> kind,
     handles |-> [h \in Handles |-> IF h = 1 THEN "live" ELSE "none"],
     pend |-> [h \in Handles |-> <<>>],
     sent |-> [h \in Handles |-> <<>>],
     queue |-> <<>>,
     rcvLive |-> TRUE,
     pc |-> "new",
     cur |-> <<>>,
     netLog |-> <<>>,
     result |-> <<>>,
     recvs |-> 0]

Init ==
    /\ \E k \in Kinds : s = InitState(k)
    /\ twin = s
    /\ tries = <<>>
    /\ late = FALSE

SendCall(h) ==
    /\ SendCallEn(s, h)
    /\ s' = SendCallEff(s, h)
    /\ UNCHANGED <<twin, tries, late>>

SendReturn(h) ==
    /\ SendReturnEn(s, h)
    /\ s' = SendReturnEff(s, h)
    /\ UNCHANGED <<twin, tries, late>>

box_clone(h) ==
    /\ box_cloneEn(s, h)
    /\ s' = box_cloneEff(s, h)
    /\ UNCHANGED <<twin, tries, late>>

DropSender(h) ==
    /\ DropSenderEn(s, h)
    /\ s' = DropSenderEff(s, h)
    /\ UNCHANGED <<twin, tries, late>>

RunStart ==
    /\ RunStartEn(s)
    /\ s' = RunStartEff(s)
    /\ UNCHANGED <<twin, tries, late>>

RunRecv ==
    /\ RunRecvEn(s)
    /\ s' = RunRecvEff(s)
    /\ UNCHANGED <<twin, tries, late>>

RunNetSend ==
    /\ RunNetSendEn(s)
    /\ \E outcome \in BOOLEAN : s' = RunNetSendEff(s, outcome)
    /\ UNCHANGED <<twin, tries, late>>

DropReceiver ==
    /\ DropReceiverEn(s)
    /\ s' = DropReceiverEff(s)
    /\ UNCHANGED <<twin, tries, late>>

Next ==
    \/ \E h \in Handles : SendCall(h)
    \/ \E h \in Handles : SendReturn(h)
    \/ \E h \in Handles : box_clone(h)
    \/ \E h \in Handles : DropSender(h)
    \/ RunStart
    \/ RunRecv
    \/ RunNetSend
    \/ DropReceiver

Spec == Init /\ [][Next]_vars

(* The bare channel, before its Receiver is handed to a                    *)
(* NetworkMessageSender: the holder of the Receiver polls it with try_recv *)
TryRecv ==
    /\ s.pc = "new" /\ s.rcvLive
    /\ Len(tries) < MaxTries
    /\ LET r == try_recv(s)
       IN  /\ tries' = Append(tries, r)
           /\ s' = IF r.ok THEN [s EXCEPT !.queue = Tail(@)] ELSE s
    /\ UNCHANGED <<twin, late>>

NextTry ==
    \/ \E h \in Handles : SendCall(h)
    \/ \E h \in Handles : SendReturn(h)
    \/ \E h \in Handles : box_clone(h)
    \/ \E h \in Handles : DropSender(h)
    \/ TryRecv

SpecTry == Init /\ [][NextTry]_vars

(* Two executions under one schedule: every operation is applied to s and *)
(* to twin, each where the operation can take place. The network of s      *)
(* answers as it likes; the network of twin never fails. Two executions    *)
(* that both agree with the never-failing one agree with each other.       *)
Both(enS, effS, enT, effT) ==
    /\ enS \/ enT
    /\ s' = IF enS THEN effS ELSE s
    /\ twin' = IF enT THEN effT ELSE twin
    /\ UNCHANGED tries

OutcomesDiffer ==
    \E i \in 1..Len(s.netLog) :
        i <= Len(twin.netLog) /\ s.netLog[i].ok # twin.netLog[i].ok

TwinSendCall(h) ==
    /\ Both(SendCallEn(s, h), SendCallEff(s, h),
            SendCallEn(twin, h), SendCallEff(twin, h))
    /\ UNCHANGED late

TwinSendReturn(h) ==
    /\ Both(SendReturnEn(s, h), SendReturnEff(s, h),
            SendReturnEn(twin, h), SendReturnEff(twin, h))
    /\ late' = (late \/ OutcomesDiffer)

TwinBoxClone(h) ==
    /\ Both(box_cloneEn(s, h), box_cloneEff(s, h),
            box_cloneEn(twin, h), box_cloneEff(twin, h))
    /\ UNCHANGED late

TwinDropSender(h) ==
    /\ Both(DropSenderEn(s, h), DropSenderEff(s, h),
            DropSenderEn(twin, h), DropSenderEff(twin, h))
    /\ UNCHANGED late

TwinRunStart ==
    /\ Both(RunStartEn(s), RunStartEff(s), RunStartEn(twin), RunStartEff(twin))
    /\ UNCHANGED late

TwinRunRecv ==
    /\ Both(RunRecvEn(s), RunRecvEff(s), RunRecvEn(twin), RunRecvEff(twin))
    /\ UNCHANGED late

TwinRunNetSend ==
    /\ \E outcome \in BOOLEAN :
          Both(RunNetSendEn(s), RunNetSendEff(s, outcome),
               RunNetSendEn(twin), RunNetSendEff(twin, TRUE))
    /\ UNCHANGED late

TwinDropReceiver ==
    /\ Both(DropReceiverEn(s), DropReceiverEff(s),
            DropReceiverEn(twin), DropReceiverEff(twin))
    /\ UNCHANGED late

NextTwin ==
    \/ \E h \in Handles : TwinSendCall(h)
    \/ \E h \in Handles : TwinSendReturn(h)
    \/ \E h \in Handles : TwinBoxClone(h)
    \/ \E h \in Handles : TwinDropSender(h)
    \/ TwinRunStart
    \/ TwinRunRecv
    \/ TwinRunNetSend
    \/ TwinDropReceiver

SpecTwin == Init /\ [][NextTwin]_vars

(* test_receiver_crossbeam_rapid_fire: one handle on a bounded(5) channel, *)
(* the dispatcher's thread spawned, then a loop of send calls, each        *)
(* unwrapped, and the handle dropped when the loop is over                 *)
RapidSends == Capacity + MaxExtra

InitRapid ==
    /\ s = InitState("crossbeam")
    /\ twin = s
    /\ tries = <<>>
    /\ late = FALSE

RapidSendCall ==
    /\ Idle(s, 1)
    /\ TotalSends(s) < RapidSends
    /\ s' = SendCallEff(s, 1)
    /\ UNCHANGED <<twin, tries, late>>

RapidDropSender ==
    /\ DropSenderEn(s, 1)
    /\ Len(s.sent[1]) = RapidSends
    /\ s' = DropSenderEff(s, 1)
    /\ UNCHANGED <<twin, tries, late>>

NextRapid ==
    \/ RapidSendCall
    \/ SendReturn(1)
    \/ RapidDropSender
    \/ RunStart
    \/ RunRecv
    \/ RunNetSend

SpecRapid == InitRapid /\ [][NextRapid]_vars

(* the producer's and the dispatcher's threads keep running, and every     *)
(* network send returns                                                    *)
FairRapid ==
    /\ SpecRapid
    /\ WF_vars(RapidSendCall)
    /\ WF_vars(SendReturn(1))
    /\ WF_vars(RunStart)
    /\ WF_vars(RunRecv)
    /\ WF_vars(RunNetSend)

(* the dispatcher's thread keeps running, and every network send returns *)
FairSpec == Spec /\ WF_vars(RunRecv) /\ WF_vars(RunNetSend)

----------------------------------------------------------------------------
(* Vocabulary of the properties *)

Last(q) == q[Len(q)]

Running(S) == S.pc \in {"recv", "net"}

Returned(S) == S.pc = "returned"

(* this step is the return of a network send call *)
NetSendStep == Len(s'.netLog) = Len(s.netLog) + 1

Failures(S) == {i \in 1..Len(S.netLog) : ~S.netLog[i].ok}

(* the items the dispatcher has not passed to the network yet *)
Waiting(S) == S.cur \o S.queue

----------------------------------------------------------------------------
(* C1: a failed network send does not make run() return: the dispatcher   *)
(* is back at recv() with the queue untouched and no result, and after any *)
(* failure every message still waiting is eventually passed to the network *)
C1_FailedSendStep ==
    [][(NetSendStep /\ ~Last(s'.netLog).ok)
          => /\ s'.pc = "recv"
             /\ s'.result = <<>>
             /\ s'.rcvLive
             /\ s'.queue = s.queue]_vars

C1_GoesOn ==
    \A k \in 1..MaxSends :
        (Len(s.netLog) = k /\ Failures(s) # {} /\ Waiting(s) # <<>>)
            ~> (Len(s.netLog) > k)

C1_NetFailureDoesNotStopRun == C1_FailedSendStep /\ C1_GoesOn

(* two failed sends, the first one first in the log, and a later message   *)
(* passed to the network after them                                        *)
C1_Witness ==
    /\ Len(s.netLog) >= 3
    /\ {1, 2} \subseteq Failures(s)
    /\ s.netLog[3].ok
    /\ s.result = <<>>

----------------------------------------------------------------------------
(* C2: run() has returned exactly when it holds a result, the result is    *)
(* always an error of variant RecvError carrying the channel's cause, and  *)
(* the only step that returns is a recv() on an empty, disconnected        *)
(* channel: never the return of a network send                             *)
C2_ResultShape ==
    /\ Returned(s) <=> s.result # <<>>
    /\ s.result # <<>> =>
          /\ ~s.result[1].ok
          /\ s.result[1].err.variant = "RecvError"
          /\ s.result[1].err.text[3] = RecvErrorText(s.kind)

C2_ReturnStep ==
    [][(Returned(s') /\ ~Returned(s))
          => /\ s.pc = "recv"
             /\ s.queue = <<>>
             /\ Disconnected(s)
             /\ ~NetSendStep]_vars

C2_OnlyRecvErrorReturns == []C2_ResultShape /\ C2_ReturnStep

(* run() has returned after both a failed and a successful network send *)
C2_Witness ==
    /\ Returned(s)
    /\ Failures(s) # {}
    /\ \E i \in 1..Len(s.netLog) : s.netLog[i].ok

----------------------------------------------------------------------------
(* C3: once no Sender handle is live, a running dispatcher eventually      *)
(* returns from run() with an error                                        *)
C3_DisconnectEndsRun ==
    (Disconnected(s) /\ Running(s))
        ~> (Returned(s) /\ s.result # <<>> /\ ~s.result[1].ok)

(* the original handle and a duplicate were both dropped, with a message   *)
(* still to forward, and run() has returned                                *)
C3_Witness ==
    /\ Returned(s)
    /\ \A h \in {1, 2} : s.handles[h] = "dropped"
    /\ s.netLog # <<>>
    /\ Last(s.netLog).src = 2

----------------------------------------------------------------------------
(* What the producers sent and what the network was given *)

IsPrefix(p, q) == Len(p) <= Len(q) /\ SubSeq(q, 1, Len(p)) = p

(* the requests handle h sent with success, in the order of its calls *)
OkSent(S, h) ==
    LET ok == SelectSeq(S.sent[h], LAMBDA e : e.res.ok)
    IN  [i \in 1..Len(ok) |-> ok[i].req]

(* the positions, among h's send calls, of the successful ones *)
OkSeqs(S, h) ==
    LET F[i \in 0..Len(S.sent[h])] ==
            IF i = 0 THEN <<>>
            ELSE IF S.sent[h][i].res.ok THEN Append(F[i - 1], i) ELSE F[i - 1]
    IN  F[Len(S.sent[h])]

(* the (recipient, payload) pairs passed to network.send, in call order *)
NetCalls(S) ==
    [i \in 1..Len(S.netLog) |->
        [recipient |-> S.netLog[i].recipient, payload |-> S.netLog[i].payload]]

WaitingReqs(S) == [i \in 1..Len(Waiting(S)) |-> Waiting(S)[i].req]

(* the ghost tags, first of the network calls, then of the waiting items *)
Tags(S) ==
    [i \in 1..Len(S.netLog) |-> [src |-> S.netLog[i].src, seq |-> S.netLog[i].seq]]
    \o [i \in 1..Len(Waiting(S)) |-> [src |-> Waiting(S)[i].src, seq |-> Waiting(S)[i].seq]]

SeqsOf(S, h) ==
    LET mine == SelectSeq(Tags(S), LAMBDA g : g.src = h)
    IN  [i \in 1..Len(mine) |-> mine[i].seq]

Delivered(S, h, n) ==
    \E i \in 1..Len(S.netLog) : S.netLog[i].src = h /\ S.netLog[i].seq = n

IsWaiting(S, h, n) ==
    \E i \in 1..Len(Waiting(S)) : Waiting(S)[i].src = h /\ Waiting(S)[i].seq = n

(* this step is the return of a send call on handle h *)
SendReturnStep(h) == Len(s'.sent[h]) = Len(s.sent[h]) + 1

----------------------------------------------------------------------------
(* C4: while only one handle has sent, the (recipient, payload) pairs      *)
(* given to network.send are a prefix of the requests sent with success,   *)
(* and together with the requests still waiting they are that sequence     *)
C4_SingleHandleFifo ==
    (\A h \in Handles \ {1} : s.sent[h] = <<>>)
        => /\ IsPrefix(NetCalls(s), OkSent(s, 1))
           /\ s.rcvLive => NetCalls(s) \o WaitingReqs(s) = OkSent(s, 1)

(* three requests sent by the one handle and all three given to the        *)
(* network, neighbours differing in recipient and payload                  *)
C4_Witness ==
    /\ \A h \in Handles \ {1} : s.sent[h] = <<>>
    /\ Len(s.netLog) = 3
    /\ NetCalls(s) = OkSent(s, 1)
    /\ NetCalls(s)[1] # NetCalls(s)[2]
    /\ NetCalls(s)[2] # NetCalls(s)[3]

----------------------------------------------------------------------------
(* C5: with several handles sending, while the receiver lives every        *)
(* message sent with success is, for its handle, in send order among the   *)
(* messages given to the network or still waiting, and a running           *)
(* dispatcher eventually gives every waiting message to the network        *)
C5_NoLoss ==
    \A h \in Handles : s.rcvLive => SeqsOf(s, h) = OkSeqs(s, h)

C5_Eventually ==
    \A h \in Handles, n \in 1..MaxSends :
        (Running(s) /\ IsWaiting(s, h, n)) ~> Delivered(s, h, n)

C5_TwoHandlesNoLoss == []C5_NoLoss /\ C5_Eventually

(* the two handles' messages reached the network interleaved *)
C5_Witness ==
    /\ Len(s.netLog) = 3
    /\ s.netLog[1].src = 1
    /\ s.netLog[2].src = 2
    /\ s.netLog[3].src = 1
    /\ Len(s.sent[1]) = 2 /\ Len(s.sent[2]) = 1

----------------------------------------------------------------------------
(* C6: dropping a handle changes nothing for the other handles or the      *)
(* channel; while a handle is live after another was dropped, run() has    *)
(* not returned, and a send returning on a live channel succeeds           *)
C6_NoDisconnectYet ==
    (LiveHandles(s) # {} /\ \E h \in Handles : s.handles[h] = "dropped")
        => ~Returned(s) /\ s.result = <<>>

C6_DropStep ==
    [][\A h \in Handles :
          (s.handles[h] = "live" /\ s'.handles[h] = "dropped")
              => /\ \A g \in Handles \ {h} : s'.handles[g] = s.handles[g]
                 /\ s'.queue = s.queue
                 /\ s'.rcvLive = s.rcvLive
                 /\ s'.pc = s.pc]_vars

C6_SendStep ==
    [][\A h \in Handles :
          (SendReturnStep(h) /\ s.rcvLive
              /\ \E g \in Handles : s.handles[g] = "dropped")
              => Last(s'.sent[h]).res.ok /\ Len(s'.queue) = Len(s.queue) + 1]_vars

C6_DropOneKeepsOthers == []C6_NoDisconnectYet /\ C6_DropStep /\ C6_SendStep

(* the original handle is dropped, the duplicate has sent with success,    *)
(* and the dispatcher is blocked in recv() on the empty channel            *)
C6_Witness ==
    /\ s.handles[1] = "dropped"
    /\ s.handles[2] = "live"
    /\ s.sent[1] = <<>>
    /\ Len(OkSent(s, 2)) >= 1
    /\ s.pc = "recv" /\ s.queue = <<>>
    /\ s.netLog # <<>>

----------------------------------------------------------------------------
(* C7: try_recv on an empty channel fails with the text of the "empty"     *)
(* kind while a sender is live and with the text of the "disconnected"     *)
(* kind once no sender is live, and the two texts differ                   *)
IsEmptyKind(e) == e = "receiving on an empty channel"

IsDisconnectedKind(e) ==
    e \in {"receiving on an empty and disconnected channel",
           "receiving on a closed channel"}

C7_TryRecvKinds ==
    [][Len(tries') = Len(tries) + 1
          => LET r == Last(tries')
             IN  /\ (s.queue = <<>> /\ ~Disconnected(s))
                       => ~r.ok /\ IsEmptyKind(r.error) /\ ~IsDisconnectedKind(r.error)
                 /\ (s.queue = <<>> /\ Disconnected(s))
                       => ~r.ok /\ IsDisconnectedKind(r.error) /\ ~IsEmptyKind(r.error)
                 /\ s.queue # <<>> => r.ok]_vars

(* try_recv has failed once on the connected channel and once after the    *)
(* last sender was dropped                                                 *)
C7_Witness ==
    /\ Len(tries) = 2
    /\ ~tries[1].ok /\ IsEmptyKind(tries[1].error)
    /\ ~tries[2].ok /\ IsDisconnectedKind(tries[2].error)

----------------------------------------------------------------------------
(* C8: no message is given to the network twice or given to the network    *)
(* and kept: the tags of the network calls and of the waiting items are    *)
(* pairwise distinct, and a network send, failed or not, leaves the queue  *)
(* as it was and holds no message                                          *)
C8_Distinct ==
    \A i, j \in 1..Len(Tags(s)) : Tags(s)[i] = Tags(s)[j] => i = j

C8_NetStep ==
    [][NetSendStep
          => /\ s'.queue = s.queue
             /\ s'.cur = <<>>
             /\ Last(s'.netLog).src = s.cur[1].src
             /\ Last(s'.netLog).seq = s.cur[1].seq]_vars

C8_ExactlyOnce == []C8_Distinct /\ C8_NetStep

(* a message whose network send failed, and two later network sends of     *)
(* other messages                                                          *)
C8_Witness ==
    /\ Len(s.netLog) = 3
    /\ ~s.netLog[1].ok
    /\ s.netLog[2].ok
    /\ s.pc = "recv" /\ s.queue = <<>>

----------------------------------------------------------------------------
(* C9: a send returns Ok exactly when the receiver is live, and then the   *)
(* item is at the back of the queue; otherwise it returns the channel's    *)
(* SendError and the queue is as it was                                    *)
C9_SendResult ==
    [][\A h \in Handles :
          SendReturnStep(h)
              => LET e == Last(s'.sent[h])
                 IN  IF e.res.ok
                     THEN /\ s.rcvLive
                          /\ s'.queue = Append(s.queue, Item(e.req, h, Len(s'.sent[h])))
                     ELSE /\ ~s.rcvLive
                          /\ e.res.error = SendErrorText(s.kind)
                          /\ s'.queue = s.queue]_vars

(* a handle whose first send succeeded and whose second, after the         *)
(* receiver was dropped, failed                                            *)
C9_Witness ==
    /\ ~s.rcvLive
    /\ Len(s.sent[1]) = 2
    /\ s.sent[1][1].res.ok
    /\ ~s.sent[1][2].res.ok

----------------------------------------------------------------------------
(* C10: an execution whose network sends fail at will and the execution    *)
(* under the same schedule whose network sends all succeed give every      *)
(* handle the same sequence of send results and the same pending call      *)
SendResults(S, h) == [i \in 1..Len(S.sent[h]) |-> S.sent[h][i].res]

C10_SendResultsIgnoreNetwork ==
    \A h \in Handles :
        /\ SendResults(s, h) = SendResults(twin, h)
        /\ s.pend[h] = twin.pend[h]

(* the network outcomes of the two executions differ, a send has returned  *)
(* after they came to differ, on a handle that has sent twice              *)
C10_Witness ==
    /\ late
    /\ OutcomesDiffer
    /\ \E h \in Handles : Len(s.sent[h]) >= 2

----------------------------------------------------------------------------
(* C11: at most one message is held by the dispatcher, and it holds one    *)
(* exactly while a network send is in progress; during that call no        *)
(* recv() returns, the held message changes only by the call returning,    *)
(* and the queue loses no message (it can only grow)                       *)
C11_OneHeld ==
    /\ Len(s.cur) <= 1
    /\ s.pc = "net" <=> s.cur # <<>>
    /\ s.recvs = Len(s.netLog) + Len(s.cur) + (IF Returned(s) THEN 1 ELSE 0)

C11_DuringSend ==
    [][s.pc = "net"
          => /\ IsPrefix(s.queue, s'.queue)
             /\ s'.recvs = s.recvs
             /\ s'.cur = s.cur \/ NetSendStep]_vars

C11_OneAtATime == []C11_OneHeld /\ C11_DuringSend

(* a network send is in progress and two messages wait in the queue *)
C11_Witness ==
    /\ s.pc = "net"
    /\ Len(s.queue) = 2
    /\ s.cur[1].seq = 1

----------------------------------------------------------------------------
(* C12: on the bounded channel the queue never holds more than Capacity    *)
(* messages, and with more messages to send than the channel holds,        *)
(* eventually every send call has returned Ok and every message has been   *)
(* given to the network                                                    *)
C12_Bounded == Len(s.queue) <= Capacity

C12_AllThrough ==
    <>(/\ Len(s.sent[1]) = RapidSends
       /\ \A n \in 1..RapidSends : s.sent[1][n].res.ok /\ Delivered(s, 1, n)
       /\ Len(s.netLog) = RapidSends)

C12_RapidFireNoDeadlock == []C12_Bounded /\ C12_AllThrough

(* the producer is blocked in send on the full channel *)
C12_Witness ==
    /\ s.kind = "crossbeam"
    /\ Len(s.queue) = Capacity
    /\ s.pend[1] # <<>>
    /\ s.rcvLive
    /\ ~SendReturnEn(s, 1)

----------------------------------------------------------------------------
(* C13: in every state with a live Sender handle run() has not returned    *)
(* and holds no result, and a dispatcher at recv() on the empty channel    *)
(* cannot proceed: recv() blocks                                           *)
C13_BlocksWhileSenderLive ==
    LiveHandles(s) # {}
        => /\ ~Returned(s)
           /\ s.result = <<>>
           /\ (s.pc = "recv" /\ s.queue = <<>>) => ~RunRecvEn(s)

(* two network sends have failed, a handle is live and the dispatcher is   *)
(* blocked in recv() on the empty channel                                  *)
C13_Witness ==
    /\ LiveHandles(s) # {}
    /\ Cardinality(Failures(s)) >= 2
    /\ s.pc = "recv"
    /\ s.queue = <<>>
    /\ s.rcvLive

----------------------------------------------------------------------------
(* C14: from a state in which run() has returned, no step makes another    *)
(* recv() call or another network send call: run() stays returned with the *)
(* same result, the same count of recv() calls and the same network calls  *)
C14_DisconnectIsTerminal ==
    [][Returned(s)
          => /\ Returned(s')
             /\ s'.result = s.result
             /\ s'.recvs = s.recvs
             /\ s'.netLog = s.netLog
             /\ s'.cur = <<>>]_vars

(* run() returned after forwarding messages, and the program went on: the  *)
(* NetworkMessageSender was dropped afterwards                             *)
C14_Witness ==
    /\ Returned(s)
    /\ ~s.rcvLive
    /\ Len(s.netLog) >= 2
    /\ s.recvs = Len(s.netLog) + 1

----------------------------------------------------------------------------
(* C15: when run() has returned, no message is left in the queue or held   *)
(* by the dispatcher, and every message whose send returned Ok was given   *)
(* to the network exactly once                                             *)
NetSendsOf(S, h, n) ==
    {i \in 1..Len(S.netLog) : S.netLog[i].src = h /\ S.netLog[i].seq = n}

C15_NothingLostAtReturn ==
    Returned(s)
        => /\ s.queue = <<>>
           /\ s.cur = <<>>
           /\ \A h \in Handles :
                 \A n \in 1..Len(s.sent[h]) :
                     s.sent[h][n].res.ok => Cardinality(NetSendsOf(s, h, n)) = 1

(* run() has returned after the messages of two handles, three in all,     *)
(* were given to the network                                               *)
C15_Witness ==
    /\ Returned(s)
    /\ Len(s.sent[1]) = 1
    /\ Len(s.sent[2]) = 2
    /\ Len(s.netLog) = 3
    /\ s.netLog[1].src = 2

----------------------------------------------------------------------------
(* C16: every (recipient, payload) pair given to the network is that of a  *)
(* request some handle sent with success; network calls never outnumber    *)
(* the recv() calls; and a step of the dispatcher puts nothing in the      *)
(* queue, polls nothing with try_recv and leaves the producers as they are *)
C16_FromProducers ==
    /\ Len(s.netLog) <= s.recvs
    /\ \A i \in 1..Len(s.netLog) :
          LET e == s.netLog[i]
          IN  /\ e.src \in Handles
              /\ e.seq \in 1..Len(s.sent[e.src])
              /\ s.sent[e.src][e.seq].res.ok
              /\ e.recipient = s.sent[e.src][e.seq].req.recipient
              /\ e.payload = s.sent[e.src][e.seq].req.payload

C16_DispatcherStep ==
    [][(s'.pc # s.pc \/ s'.recvs # s.recvs \/ NetSendStep)
          => /\ Len(s'.queue) <= Len(s.queue)
             /\ s'.sent = s.sent
             /\ s'.pend = s.pend
             /\ s'.handles = s.handles
             /\ tries' = tries]_vars

C16_RunOnlyForwards == []C16_FromProducers /\ C16_DispatcherStep

(* the network was called for the known peer and for the unknown one, and  *)
(* the call for the unknown one failed                                     *)
C16_Witness ==
    /\ Len(s.netLog) = 2
    /\ s.netLog[1].recipient = "nobody" /\ ~s.netLog[1].ok
    /\ s.netLog[2].recipient = "123" /\ s.netLog[2].ok
    /\ s.netLog[1].payload # s.netLog[2].payload

====
